---------------------------- MODULE Spec2Model ----------------------------
(***************************************************************************)
(* Model of datapilot_gitea_mcp/server.py: an MCP server whose tools each  *)
(* build one HTTP request for the Gitea REST API and hand it to            *)
(* make_request, which sends it with httpx and normalises the outcome.     *)
(*                                                                         *)
(* A tool call is modelled in two steps, split at the blocking HTTP call:  *)
(*   Tool_<name>   the tool function's body and make_request up to         *)
(*                 client.request (server.py:102-108): the request is on   *)
(*                 the wire;                                               *)
(*   Respond       the remote service answers and the rest of              *)
(*                 make_request runs (server.py:109-119);                  *)
(*   TransportError client.request raises (server.py:108).                 *)
(* Deliver hands the outcome to the protocol layer and the server waits    *)
(* for the next call.                                                      *)
(***************************************************************************)
EXTENDS Integers, Sequences, FiniteSets, TLC

VARIABLES
    GITEA_MCP_API_URL,   \* module global, server.py:61/71
    GITEA_ACCESS_TOKEN,  \* module global, server.py:62/72
    pc,                  \* "failed" | "idle" | "waiting" | "returned" | "raised"
                         \* | "rejected"
    op,                  \* name of the tool being executed, "" when none
    kwargs,              \* the arguments the caller supplied to the tool
    http,                \* the HTTP request on the wire, None when none
    nreq,                \* HTTP requests issued by the current invocation
    response,            \* what client.request produced, None before it
    parsed,              \* whether response.json() was called
    ret                  \* the value returned, or the exception raised

vars == <<GITEA_MCP_API_URL, GITEA_ACCESS_TOKEN, pc, op, kwargs, http, nreq,
          response, parsed, ret>>

----------------------------------------------------------------------------
(* Bounds of the model.                                                    *)

\* optional int arguments are drawn from 0..MaxInt
MaxInt == 1
\* label ids are drawn from 1..MaxLabelId
MaxLabelId == 2
\* label lists have at most MaxLabels elements
MaxLabels == 2
\* search_repositories is called with at most MaxFilters of its 15 filters
MaxFilters == 3

----------------------------------------------------------------------------
(* Python values, tagged with their type.                                  *)

None == [t |-> "none"]
PyBool(b) == [t |-> "bool", v |-> b]
PyInt(n) == [t |-> "int", v |-> n]
PyStr(s) == [t |-> "str", v |-> s]
PyList(q) == [t |-> "list", v |-> q]
PyDict(f) == [t |-> "dict", v |-> f]

\* the empty dict {}
EmptyDict == [k \in {} |-> None]

\* d[k] = v on a dict
Put(d, k, v) == [x \in (DOMAIN d) \cup {k} |-> IF x = k THEN v ELSE d[x]]

\* Python truth value testing, as used by "if x:"
Truthy(x) ==
    CASE x.t = "none" -> FALSE
      [] x.t = "bool" -> x.v
      [] x.t = "int"  -> x.v # 0
      [] x.t = "str"  -> x.v # ""
      [] x.t = "list" -> Len(x.v) > 0
      [] x.t = "dict" -> DOMAIN x.v # {}

\* "if x: d[k] = x"
PutIfTruthy(d, k, x) == IF Truthy(x) THEN Put(d, k, x) ELSE d

\* "if x is not None: d[k] = x"
PutIfNotNone(d, k, x) == IF x # None THEN Put(d, k, x) ELSE d

\* f"{x}" for a str or an int
Fmt(x) ==
    CASE x.t = "int"  -> ToString(x.v)
      [] x.t = "none" -> "None"
      [] OTHER        -> x.v

----------------------------------------------------------------------------
(* The tools' signatures: required parameters, and optional parameters     *)
(* with their declared defaults.                                           *)

ToolNames ==
    {"list_repositories", "create_repository", "create_org_repository",
     "get_repository", "delete_repository", "list_org_repositories",
     "fork_repository", "search_repositories", "update_repository",
     "create_issue", "search_issues", "update_issue", "get_issue",
     "list_issue_comments", "create_issue_comment", "add_issue_label",
     "remove_issue_label", "list_labels", "create_label"}

\* defaults of create_repository and create_org_repository
CreateRepoDefaults ==
    [description |-> None, private |-> PyBool(FALSE), auto_init |-> PyBool(FALSE),
     gitignores |-> None, license |-> None, readme |-> None,
     issue_labels |-> None, default_branch |-> PyStr("main")]

SearchRepoDefaults ==
    [topic |-> PyBool(FALSE), include_desc |-> PyBool(FALSE), uid |-> None,
     priority_owner_id |-> None, starred_by |-> None, private |-> None,
     is_profile |-> None, template |-> None, archived |-> None, mode |-> None,
     exclusive |-> None, sort |-> None, order |-> None, page |-> None,
     limit |-> None]

\* Required(name): the parameters without a default
Required(name) ==
    CASE name = "list_repositories"     -> {}
      [] name = "create_repository"     -> {"name"}
      [] name = "create_org_repository" -> {"org", "name"}
      [] name = "get_repository"        -> {"owner", "repo"}
      [] name = "delete_repository"     -> {"owner", "repo"}
      [] name = "list_org_repositories" -> {"org"}
      [] name = "fork_repository"       -> {"owner", "repo"}
      [] name = "search_repositories"   -> {"q"}
      [] name = "update_repository"     -> {"owner", "repo"}
      [] name = "create_issue"          -> {"owner", "repo", "title", "body"}
      [] name = "search_issues"         -> {"owner", "repo", "q"}
      [] name = "update_issue"          -> {"owner", "repo", "index"}
      [] name = "get_issue"             -> {"owner", "repo", "index"}
      [] name = "list_issue_comments"   -> {"owner", "repo", "index"}
      [] name = "create_issue_comment"  -> {"owner", "repo", "index", "body"}
      [] name = "add_issue_label"       -> {"owner", "repo", "index", "labels"}
      [] name = "remove_issue_label"    -> {"owner", "repo", "index", "label_id"}
      [] name = "list_labels"           -> {"owner", "repo"}
      [] name = "create_label"          -> {"owner", "repo", "name", "color"}

\* Defaults(name): optional parameter |-> declared default
Defaults(name) ==
    CASE name = "create_repository"     -> CreateRepoDefaults
      [] name = "create_org_repository" -> CreateRepoDefaults
      [] name = "fork_repository"       -> [organization |-> None]
      [] name = "search_repositories"   -> SearchRepoDefaults
      [] name = "update_repository"     ->
            [description |-> None, website |-> None, private |-> None,
             has_issues |-> None, has_wiki |-> None]
      [] name = "create_issue"          -> [milestone_id |-> None, labels |-> None]
      [] name = "search_issues"         -> [state |-> PyStr("open")]
      [] name = "update_issue"          ->
            [title |-> None, body |-> None, state |-> None,
             milestone_id |-> None, labels |-> None]
      [] name = "list_labels"           -> [page |-> PyInt(1), limit |-> PyInt(20)]
      [] name = "create_label"          ->
            [description |-> None, exclusive |-> PyBool(FALSE)]
      [] OTHER                          -> EmptyDict

\* the key under which a parameter is written into the body or the query
WireKey(p) ==
    CASE p = "include_desc" -> "includeDesc"
      [] p = "starred_by"   -> "starredBy"
      [] p = "milestone_id" -> "milestone"
      [] OTHER              -> p

Optional(name) == DOMAIN Defaults(name)

\* Python's binding of a call's keyword arguments to the parameters
Bind(name, kw) ==
    [p \in Required(name) \cup Optional(name) |->
        IF p \in DOMAIN kw THEN kw[p] ELSE Defaults(name)[p]]

\* the annotated type of a parameter
BoolParams ==
    {"private", "auto_init", "topic", "include_desc", "is_profile", "template",
     "archived", "exclusive", "has_issues", "has_wiki"}
IntParams ==
    {"uid", "priority_owner_id", "starred_by", "page", "limit", "milestone_id",
     "index", "label_id"}
ListParams == {"labels"}

----------------------------------------------------------------------------
(* The tools.  Each operator takes the bound parameters a and gives the    *)
(* arguments of the tool's single make_request call.                       *)

\* make_request(method, endpoint, data=None, params=None): the call's arguments
Call(method, endpoint, data, params) ==
    [method |-> method, endpoint |-> endpoint, data |-> data, params |-> params]

list_repositories(a) == Call("GET", "user/repos", None, None)

create_repository(a) ==
    LET d0 == [name |-> a.name, private |-> a.private,
               auto_init |-> a.auto_init, default_branch |-> a.default_branch]
        d1 == PutIfTruthy(d0, "description", a.description)
        d2 == PutIfTruthy(d1, "gitignores", a.gitignores)
        d3 == PutIfTruthy(d2, "license", a.license)
        d4 == PutIfTruthy(d3, "readme", a.readme)
        d5 == PutIfTruthy(d4, "issue_labels", a.issue_labels)
    IN  Call("POST", "user/repos", PyDict(d5), None)

\* create_org_repository with the default_branch line of the body left out
create_org_repository_NoBranch(a) ==
    LET d0 == [name |-> a.name, private |-> a.private, auto_init |-> a.auto_init]
        d1 == PutIfTruthy(d0, "description", a.description)
        d2 == PutIfTruthy(d1, "gitignores", a.gitignores)
        d3 == PutIfTruthy(d2, "license", a.license)
        d4 == PutIfTruthy(d3, "readme", a.readme)
        d5 == PutIfTruthy(d4, "issue_labels", a.issue_labels)
    IN  Call("POST", "orgs/" \o Fmt(a.org) \o "/repos", PyDict(d5), None)

create_org_repository(a) ==
    LET d0 == [name |-> a.name, private |-> a.private,
               auto_init |-> a.auto_init, default_branch |-> a.default_branch]
        d1 == PutIfTruthy(d0, "description", a.description)
        d2 == PutIfTruthy(d1, "gitignores", a.gitignores)
        d3 == PutIfTruthy(d2, "license", a.license)
        d4 == PutIfTruthy(d3, "readme", a.readme)
        d5 == PutIfTruthy(d4, "issue_labels", a.issue_labels)
    IN  Call("POST", "orgs/" \o Fmt(a.org) \o "/repos", PyDict(d5), None)

get_repository(a) ==
    Call("GET", "repos/" \o Fmt(a.owner) \o "/" \o Fmt(a.repo), None, None)

delete_repository(a) ==
    Call("DELETE", "repos/" \o Fmt(a.owner) \o "/" \o Fmt(a.repo), None, None)

list_org_repositories(a) == Call("GET", "orgs/" \o Fmt(a.org) \o "/repos", None, None)

fork_repository(a) ==
    Call("POST", "repos/" \o Fmt(a.owner) \o "/" \o Fmt(a.repo) \o "/forks",
         PyDict(PutIfTruthy(EmptyDict, "organization", a.organization)), None)

search_repositories(a) ==
    LET p0  == [q |-> a.q]
        p1  == PutIfTruthy(p0, "topic", a.topic)
        p2  == PutIfTruthy(p1, "includeDesc", a.include_desc)
        p3  == PutIfTruthy(p2, "uid", a.uid)
        p4  == PutIfTruthy(p3, "priority_owner_id", a.priority_owner_id)
        p5  == PutIfTruthy(p4, "starredBy", a.starred_by)
        p6  == PutIfNotNone(p5, "private", a.private)
        p7  == PutIfNotNone(p6, "is_profile", a.is_profile)
        p8  == PutIfNotNone(p7, "template", a.template)
        p9  == PutIfNotNone(p8, "archived", a.archived)
        p10 == PutIfTruthy(p9, "mode", a.mode)
        p11 == PutIfNotNone(p10, "exclusive", a.exclusive)
        p12 == PutIfTruthy(p11, "sort", a.sort)
        p13 == PutIfTruthy(p12, "order", a.order)
        p14 == PutIfTruthy(p13, "page", a.page)
        p15 == PutIfTruthy(p14, "limit", a.limit)
    IN  Call("GET", "repos/search", None, PyDict(p15))

update_repository(a) ==
    LET d1 == PutIfNotNone(EmptyDict, "description", a.description)
        d2 == PutIfNotNone(d1, "website", a.website)
        d3 == PutIfNotNone(d2, "private", a.private)
        d4 == PutIfNotNone(d3, "has_issues", a.has_issues)
        d5 == PutIfNotNone(d4, "has_wiki", a.has_wiki)
    IN  Call("PATCH", "repos/" \o Fmt(a.owner) \o "/" \o Fmt(a.repo), PyDict(d5), None)

create_issue(a) ==
    LET d0 == [title |-> a.title, body |-> a.body]
        d1 == PutIfTruthy(d0, "milestone", a.milestone_id)
        d2 == PutIfTruthy(d1, "labels", a.labels)
    IN  Call("POST", "repos/" \o Fmt(a.owner) \o "/" \o Fmt(a.repo) \o "/issues",
             PyDict(d2), None)

search_issues(a) ==
    Call("GET", "repos/" \o Fmt(a.owner) \o "/" \o Fmt(a.repo) \o "/issues",
         None, PyDict([q |-> a.q, state |-> a.state]))

\* update_issue testing its fields for truth instead of "is not None"
update_issue_Truthy(a) ==
    LET d1 == PutIfTruthy(EmptyDict, "title", a.title)
        d2 == PutIfTruthy(d1, "body", a.body)
        d3 == PutIfTruthy(d2, "state", a.state)
        d4 == PutIfTruthy(d3, "milestone", a.milestone_id)
        d5 == PutIfTruthy(d4, "labels", a.labels)
    IN  Call("PATCH",
             "repos/" \o Fmt(a.owner) \o "/" \o Fmt(a.repo) \o "/issues/" \o Fmt(a.index),
             PyDict(d5), None)

update_issue(a) ==
    LET d1 == PutIfNotNone(EmptyDict, "title", a.title)
        d2 == PutIfNotNone(d1, "body", a.body)
        d3 == PutIfNotNone(d2, "state", a.state)
        d4 == PutIfNotNone(d3, "milestone", a.milestone_id)
        d5 == PutIfNotNone(d4, "labels", a.labels)
    IN  Call("PATCH",
             "repos/" \o Fmt(a.owner) \o "/" \o Fmt(a.repo) \o "/issues/" \o Fmt(a.index),
             PyDict(d5), None)

get_issue(a) ==
    Call("GET",
         "repos/" \o Fmt(a.owner) \o "/" \o Fmt(a.repo) \o "/issues/" \o Fmt(a.index),
         None, None)

list_issue_comments(a) ==
    Call("GET",
         "repos/" \o Fmt(a.owner) \o "/" \o Fmt(a.repo) \o "/issues/" \o Fmt(a.index)
            \o "/comments",
         None, None)

create_issue_comment(a) ==
    Call("POST",
         "repos/" \o Fmt(a.owner) \o "/" \o Fmt(a.repo) \o "/issues/" \o Fmt(a.index)
            \o "/comments",
         PyDict([body |-> a.body]), None)

add_issue_label(a) ==
    Call("POST",
         "repos/" \o Fmt(a.owner) \o "/" \o Fmt(a.repo) \o "/issues/" \o Fmt(a.index)
            \o "/labels",
         PyDict([labels |-> a.labels]), None)

remove_issue_label(a) ==
    Call("DELETE",
         "repos/" \o Fmt(a.owner) \o "/" \o Fmt(a.repo) \o "/issues/" \o Fmt(a.index)
            \o "/labels/" \o Fmt(a.label_id),
         None, None)

list_labels(a) ==
    Call("GET", "repos/" \o Fmt(a.owner) \o "/" \o Fmt(a.repo) \o "/labels",
         None, PyDict([page |-> a.page, limit |-> a.limit]))

\* create_label writing description into the body whether or not it was given
create_label_AlwaysDescription(a) ==
    LET d0 == [name |-> a.name, color |-> a.color, exclusive |-> a.exclusive,
               description |-> a.description]
    IN  Call("POST", "repos/" \o Fmt(a.owner) \o "/" \o Fmt(a.repo) \o "/labels",
             PyDict(d0), None)

create_label(a) ==
    LET d0 == [name |-> a.name, color |-> a.color, exclusive |-> a.exclusive]
    IN  Call("POST", "repos/" \o Fmt(a.owner) \o "/" \o Fmt(a.repo) \o "/labels",
             PyDict(PutIfTruthy(d0, "description", a.description)), None)

----------------------------------------------------------------------------
(* Configuration, read when the module is imported.                        *)

\* os.getenv of one variable: None when unset, else its string
UrlValues == {None, PyStr(""), PyStr("http://gitea.local")}
TokenValues == {None, PyStr(""), PyStr("s3cret")}

\* the project-root .env file: None when it does not exist, else its two entries
EnvFiles == {None} \cup [url : UrlValues, token : TokenValues]

\* os.getenv after load_dotenv(dotenv_path=env_file): a variable already in the
\* environment keeps its value, one that is not takes the file's
GetenvAfterFile(envValue, fileValue) == IF envValue # None THEN envValue ELSE fileValue

\* the two globals after lines 61-72
LoadConfig(envUrl, envToken, file) ==
    IF (~Truthy(envUrl) \/ ~Truthy(envToken)) /\ file # None
    THEN [url |-> GetenvAfterFile(envUrl, file.url),
          token |-> GetenvAfterFile(envToken, file.token)]
    ELSE [url |-> envUrl, token |-> envToken]

\* ConfigMissing with "and" in place of "or"
ConfigMissing_BothMissing(c) == ~Truthy(c.url) /\ ~Truthy(c.token)

\* the condition of the ValueError at lines 74-75
ConfigMissing(c) == ~Truthy(c.url) \/ ~Truthy(c.token)

get_headers ==
    ("Authorization" :> "token " \o Fmt(GITEA_ACCESS_TOKEN))
        @@ ("Content-Type" :> "application/json")
        @@ ("Accept" :> "application/json")

----------------------------------------------------------------------------
(* make_request.                                                           *)

\* lines 102-108: the request handed to client.request
BuildRequest(c) ==
    [method |-> c.method,
     url |-> Fmt(GITEA_MCP_API_URL) \o "/api/v1/" \o c.endpoint,
     headers |-> get_headers,
     json |-> c.data,
     params |-> c.params]

\* the status codes and body texts the remote service answers with
Statuses == {200, 204, 302, 404, 500}
Bodies ==
    {"", "null", "[]", "{\"id\":1}", "{\"message\":\"not found\"}",
     "{\"error\":\"boom\"}"}
Responses == [status : Statuses, text : Bodies]

\* the exceptions client.request raises: str(e) of each
TransportFailures == {"[Errno 111] Connection refused", "timed out"}

\* httpx Response.is_success, which raise_for_status tests
is_success(status) == 200 <= status /\ status <= 299

\* response.json() on the body texts above: the decoded value, or the
\* JSONDecodeError's message
json(text) ==
    CASE text = "null" -> [ok |-> TRUE, value |-> None]
      [] text = "[]" -> [ok |-> TRUE, value |-> PyList(<<>>)]
      [] text = "{\"id\":1}" -> [ok |-> TRUE, value |-> PyDict([id |-> PyInt(1)])]
      [] text = "{\"message\":\"not found\"}" ->
            [ok |-> TRUE, value |-> PyDict([message |-> PyStr("not found")])]
      [] text = "{\"error\":\"boom\"}" ->
            [ok |-> TRUE, value |-> PyDict([error |-> PyStr("boom")])]
      [] OTHER -> [ok |-> FALSE, msg |-> "Expecting value: line 1 column 1 (char 0)"]

\* HandleResponse with the remote error body decoded instead of passed on as text
HandleResponse_DecodedDetails(r) ==
    IF ~is_success(r.status)
    THEN [value |-> PyDict([error |-> PyStr("HTTP Error: " \o ToString(r.status)),
                            details |-> IF json(r.text).ok THEN json(r.text).value
                                        ELSE PyStr(r.text)]),
          parsed |-> json(r.text).ok]
    ELSE IF r.status = 204
    THEN [value |-> None, parsed |-> FALSE]
    ELSE LET j == json(r.text)
         IN  IF j.ok
             THEN [value |-> j.value, parsed |-> TRUE]
             ELSE [value |-> PyDict([error |-> PyStr(j.msg)]), parsed |-> TRUE]

\* HandleResponse without the status 204 test of lines 111-112
HandleResponse_No204(r) ==
    IF ~is_success(r.status)
    THEN [value |-> PyDict([error |-> PyStr("HTTP Error: " \o ToString(r.status)),
                            details |-> PyStr(r.text)]),
          parsed |-> FALSE]
    ELSE LET j == json(r.text)
         IN  IF j.ok
             THEN [value |-> j.value, parsed |-> TRUE]
             ELSE [value |-> PyDict([error |-> PyStr(j.msg)]), parsed |-> TRUE]

\* lines 109-119: the value returned for response r, and whether r.json() ran
HandleResponse(r) ==
    IF ~is_success(r.status)
    THEN [value |-> PyDict([error |-> PyStr("HTTP Error: " \o ToString(r.status)),
                            details |-> PyStr(r.text)]),
          parsed |-> FALSE]
    ELSE IF r.status = 204
    THEN [value |-> None, parsed |-> FALSE]
    ELSE LET j == json(r.text)
         IN  IF j.ok
             THEN [value |-> j.value, parsed |-> TRUE]
             ELSE [value |-> PyDict([error |-> PyStr(j.msg)]), parsed |-> TRUE]

----------------------------------------------------------------------------
(* The calls the protocol layer makes.                                     *)

LabelLists == UNION {[1..n -> 1..MaxLabelId] : n \in 0..MaxLabels}

\* the values a caller passes for parameter p
ArgVals(p) ==
    CASE p \in BoolParams -> {PyBool(TRUE), PyBool(FALSE)}
      [] p = "index"      -> {PyInt(7)}
      [] p = "label_id"   -> {PyInt(i) : i \in 1..MaxLabelId}
      [] p \in IntParams  -> {PyInt(i) : i \in 0..MaxInt}
      [] p \in ListParams -> {PyList(q) : q \in LabelLists}
      [] p = "owner"      -> {PyStr("alice")}
      [] p = "repo"       -> {PyStr("site")}
      [] p = "org"        -> {PyStr("acme")}
      [] p = "name"       -> {PyStr("demo")}
      [] p = "q"          -> {PyStr("infra")}
      [] p = "color"      -> {PyStr("ff0000")}
      [] p = "state"      -> {PyStr("open"), PyStr("closed")}
      [] OTHER            -> {PyStr(""), PyStr("x")}

\* every assignment of values to the parameters in S
RECURSIVE Assignments(_)
Assignments(S) ==
    IF S = {} THEN {EmptyDict}
    ELSE LET p == CHOOSE x \in S : TRUE
         IN  {Put(f, p, v) : f \in Assignments(S \ {p}), v \in ArgVals(p)}

\* the sets of optional parameters a call supplies
OptionalChoices(name) ==
    IF name = "search_repositories"
    THEN {S \in SUBSET Optional(name) : Cardinality(S) <= MaxFilters}
    ELSE SUBSET Optional(name)

\* the keyword arguments of a well-formed call of tool name
WellFormedKwargs(name) ==
    UNION {Assignments(Required(name) \cup S) : S \in OptionalChoices(name)}

\* values of the annotated type that name nothing on the remote service: an
\* empty path segment or name, an index below 1
MalformedVals(p) ==
    CASE p \in {"owner", "repo", "org", "name", "color"} -> {PyStr("")}
      [] p \in {"index", "label_id"}                     -> {PyInt(-1)}
      [] OTHER                                           -> {}

\* calls with the required arguments only, one of them malformed
MalformedKwargs(name) ==
    UNION {{Put(kw, p, v) : v \in MalformedVals(p)} :
              kw \in Assignments(Required(name)), p \in Required(name)}

\* calls with one required argument left out
IncompleteKwargs(name) ==
    {[q \in DOMAIN kw \ {p} |-> kw[q]] :
        kw \in Assignments(Required(name)), p \in Required(name)}

\* the TypeError Python raises for a call that leaves out parameter p
MissingArgument(name, p) ==
    [t |-> "exception",
     v |-> name \o "() missing 1 required positional argument: '" \o p \o "'"]

\* the keyword arguments of a call of tool name that binds to its signature
Kwargs(name) == WellFormedKwargs(name) \cup MalformedKwargs(name)

----------------------------------------------------------------------------
(* State machine.                                                          *)

Init ==
    /\ \E envUrl \in UrlValues, envToken \in TokenValues, file \in EnvFiles :
          LET c == LoadConfig(envUrl, envToken, file)
          IN  /\ GITEA_MCP_API_URL = c.url
              /\ GITEA_ACCESS_TOKEN = c.token
              /\ pc = IF ConfigMissing(c) THEN "failed" ELSE "idle"
    /\ op = ""
    /\ kwargs = EmptyDict
    /\ http = None
    /\ nreq = 0
    /\ response = None
    /\ parsed = FALSE
    /\ ret = None

\* a tool runs up to client.request: the request c is sent
Invoke(name, kw, c) ==
    /\ pc' = "waiting"
    /\ op' = name
    /\ kwargs' = kw
    /\ http' = BuildRequest(c)
    /\ nreq' = nreq + 1
    /\ UNCHANGED <<GITEA_MCP_API_URL, GITEA_ACCESS_TOKEN, response, parsed, ret>>

Tool_list_repositories ==
    /\ pc = "idle"
    /\ \E kw \in Kwargs("list_repositories") :
           Invoke("list_repositories", kw,
                  list_repositories(Bind("list_repositories", kw)))

Tool_create_repository ==
    /\ pc = "idle"
    /\ \E kw \in Kwargs("create_repository") :
           Invoke("create_repository", kw,
                  create_repository(Bind("create_repository", kw)))

Tool_create_org_repository ==
    /\ pc = "idle"
    /\ \E kw \in Kwargs("create_org_repository") :
           Invoke("create_org_repository", kw,
                  create_org_repository(Bind("create_org_repository", kw)))

Tool_get_repository ==
    /\ pc = "idle"
    /\ \E kw \in Kwargs("get_repository") :
           Invoke("get_repository", kw, get_repository(Bind("get_repository", kw)))

Tool_delete_repository ==
    /\ pc = "idle"
    /\ \E kw \in Kwargs("delete_repository") :
           Invoke("delete_repository", kw,
                  delete_repository(Bind("delete_repository", kw)))

Tool_list_org_repositories ==
    /\ pc = "idle"
    /\ \E kw \in Kwargs("list_org_repositories") :
           Invoke("list_org_repositories", kw,
                  list_org_repositories(Bind("list_org_repositories", kw)))

Tool_fork_repository ==
    /\ pc = "idle"
    /\ \E kw \in Kwargs("fork_repository") :
           Invoke("fork_repository", kw, fork_repository(Bind("fork_repository", kw)))

Tool_search_repositories ==
    /\ pc = "idle"
    /\ \E kw \in Kwargs("search_repositories") :
           Invoke("search_repositories", kw,
                  search_repositories(Bind("search_repositories", kw)))

Tool_update_repository ==
    /\ pc = "idle"
    /\ \E kw \in Kwargs("update_repository") :
           Invoke("update_repository", kw,
                  update_repository(Bind("update_repository", kw)))

Tool_create_issue ==
    /\ pc = "idle"
    /\ \E kw \in Kwargs("create_issue") :
           Invoke("create_issue", kw, create_issue(Bind("create_issue", kw)))

Tool_search_issues ==
    /\ pc = "idle"
    /\ \E kw \in Kwargs("search_issues") :
           Invoke("search_issues", kw, search_issues(Bind("search_issues", kw)))

Tool_update_issue ==
    /\ pc = "idle"
    /\ \E kw \in Kwargs("update_issue") :
           Invoke("update_issue", kw, update_issue(Bind("update_issue", kw)))

Tool_get_issue ==
    /\ pc = "idle"
    /\ \E kw \in Kwargs("get_issue") :
           Invoke("get_issue", kw, get_issue(Bind("get_issue", kw)))

Tool_list_issue_comments ==
    /\ pc = "idle"
    /\ \E kw \in Kwargs("list_issue_comments") :
           Invoke("list_issue_comments", kw,
                  list_issue_comments(Bind("list_issue_comments", kw)))

Tool_create_issue_comment ==
    /\ pc = "idle"
    /\ \E kw \in Kwargs("create_issue_comment") :
           Invoke("create_issue_comment", kw,
                  create_issue_comment(Bind("create_issue_comment", kw)))

Tool_add_issue_label ==
    /\ pc = "idle"
    /\ \E kw \in Kwargs("add_issue_label") :
           Invoke("add_issue_label", kw, add_issue_label(Bind("add_issue_label", kw)))

Tool_remove_issue_label ==
    /\ pc = "idle"
    /\ \E kw \in Kwargs("remove_issue_label") :
           Invoke("remove_issue_label", kw,
                  remove_issue_label(Bind("remove_issue_label", kw)))

Tool_list_labels ==
    /\ pc = "idle"
    /\ \E kw \in Kwargs("list_labels") :
           Invoke("list_labels", kw, list_labels(Bind("list_labels", kw)))

Tool_create_label ==
    /\ pc = "idle"
    /\ \E kw \in Kwargs("create_label") :
           Invoke("create_label", kw, create_label(Bind("create_label", kw)))

\* client.request returns a response; lines 109-119 run and the tool returns
Respond ==
    /\ pc = "waiting"
    /\ \E r \in Responses :
          LET h == HandleResponse(r)
          IN  /\ response' = [kind |-> "response", status |-> r.status, text |-> r.text]
              /\ ret' = h.value
              /\ parsed' = h.parsed
    /\ pc' = "returned"
    /\ http' = None
    /\ kwargs' = EmptyDict
    /\ UNCHANGED <<GITEA_MCP_API_URL, GITEA_ACCESS_TOKEN, op, nreq>>

\* TransportError with one more attempt after the first failure
TransportError_Retry ==
    /\ pc = "waiting"
    /\ \E e \in TransportFailures :
          IF nreq < 2
          THEN /\ nreq' = nreq + 1
               /\ UNCHANGED <<pc, http, kwargs, response, ret>>
          ELSE /\ response' = [kind |-> "exception", msg |-> e]
               /\ ret' = [t |-> "exception", v |-> e]
               /\ pc' = "raised"
               /\ http' = None
               /\ kwargs' = EmptyDict
               /\ UNCHANGED nreq
    /\ UNCHANGED <<GITEA_MCP_API_URL, GITEA_ACCESS_TOKEN, op, parsed>>

\* client.request raises at line 108, outside the try block of lines 109-119:
\* the exception leaves make_request and the tool
TransportError ==
    /\ pc = "waiting"
    /\ \E e \in TransportFailures :
          /\ response' = [kind |-> "exception", msg |-> e]
          /\ ret' = [t |-> "exception", v |-> e]
    /\ pc' = "raised"
    /\ http' = None
    /\ kwargs' = EmptyDict
    /\ UNCHANGED <<GITEA_MCP_API_URL, GITEA_ACCESS_TOKEN, op, nreq, parsed>>

\* a call that leaves out a required argument does not bind to the tool's
\* signature: Python raises TypeError before the tool's body runs
RejectCall ==
    /\ pc = "idle"
    /\ \E name \in ToolNames :
          \E kw \in IncompleteKwargs(name) :
             /\ op' = name
             /\ kwargs' = kw
             /\ ret' = MissingArgument(name, CHOOSE p \in Required(name) :
                                                 p \notin DOMAIN kw)
    /\ pc' = "rejected"
    /\ UNCHANGED <<GITEA_MCP_API_URL, GITEA_ACCESS_TOKEN, http, nreq, response,
                   parsed>>

\* the protocol layer takes the outcome; the server waits for the next call
Deliver ==
    /\ pc \in {"returned", "raised", "rejected"}
    /\ pc' = "idle"
    /\ op' = ""
    /\ kwargs' = EmptyDict
    /\ nreq' = 0
    /\ response' = None
    /\ parsed' = FALSE
    /\ ret' = None
    /\ UNCHANGED <<GITEA_MCP_API_URL, GITEA_ACCESS_TOKEN, http>>

Next ==
    \/ Tool_create_issue
    \/ Tool_search_issues
    \/ Tool_update_issue
    \/ Tool_get_issue
    \/ Tool_list_issue_comments
    \/ Tool_create_issue_comment
    \/ Tool_add_issue_label
    \/ Tool_remove_issue_label
    \/ Tool_list_labels
    \/ Tool_create_label
    \/ Tool_list_repositories
    \/ Tool_create_repository
    \/ Tool_create_org_repository
    \/ Tool_get_repository
    \/ Tool_delete_repository
    \/ Tool_list_org_repositories
    \/ Tool_fork_repository
    \/ Tool_search_repositories
    \/ Tool_update_repository
    \/ RejectCall
    \/ TransportError
    \/ Respond
    \/ Deliver

Spec == Init /\ [][Next]_vars

----------------------------------------------------------------------------
(* What the claims speak of.                                               *)

\* the value carries an "error" key
HasErrorKey(v) == v.t = "dict" /\ "error" \in DOMAIN v.v

\* s ends with suffix
EndsWith(s, suffix) ==
    /\ Len(s) >= Len(suffix)
    /\ SubSeq(s, Len(s) - Len(suffix) + 1, Len(s)) = suffix

\* the current invocation is over, by a return or by an exception
Finished == pc \in {"returned", "raised"}

\* the HTTP call produced a response with a status code
GotResponse == Finished /\ response.kind = "response"

\* the HTTP call failed at the transport level: no response, or one that
\* cannot be decoded
TransportLevelFailure ==
    /\ Finished
    /\ \/ response.kind = "exception"
       \/ /\ response.kind = "response"
          /\ is_success(response.status)
          /\ response.status # 204
          /\ ~json(response.text).ok

\* the remote service answered with a status outside the success range
RemoteRejection == GotResponse /\ ~is_success(response.status)

----------------------------------------------------------------------------
(* C1: whenever the HTTP call of an operation fails at the transport level *)
(* (connection failure, timeout, undecodable response), the operation      *)
(* returns an Error Record {error: description}; no exception leaves the   *)
(* operation.                                                              *)
C1_TransportFailureGivesErrorRecord ==
    TransportLevelFailure =>
        /\ pc = "returned"
        /\ HasErrorKey(ret)
        /\ DOMAIN ret.v = {"error"}

(* C2: whenever the remote service answers with a status outside the       *)
(* success range, the operation returns an Error Record whose error field  *)
(* carries the status code and whose details field is the response body    *)
(* text, verbatim.                                                         *)
C2_RemoteRejectionGivesStatusAndRawBody ==
    RemoteRejection =>
        /\ pc = "returned"
        /\ ret.t = "dict"
        /\ DOMAIN ret.v = {"error", "details"}
        /\ ret.v.error.t = "str"
        /\ EndsWith(ret.v.error.v, ToString(response.status))
        /\ ret.v.details = PyStr(response.text)

C2_Witness ==
    /\ pc = "returned"
    /\ response.kind = "response"
    /\ response.status = 404
    /\ response.text = "{\"message\":\"not found\"}"
    /\ ret = PyDict([error |-> PyStr("HTTP Error: 404"),
                     details |-> PyStr("{\"message\":\"not found\"}")])

(* C3: a response with status 204 gives the empty success result: never an *)
(* Error Record, and the body is never decoded as JSON, whatever it holds.  *)
C3_NoContentGivesEmptySuccess ==
    (GotResponse /\ response.status = 204) =>
        /\ pc = "returned"
        /\ ret = None
        /\ ~HasErrorKey(ret)
        /\ ~parsed

C3_Witness ==
    /\ pc = "returned"
    /\ response.kind = "response"
    /\ response.status = 204
    /\ response.text = "{\"error\":\"boom\"}"
    /\ ret = None
    /\ ~parsed

(* C4: every invocation issues exactly one HTTP request, whatever the      *)
(* outcome: one once the tool has called client.request, and still one     *)
(* when it has returned or raised; none while no tool runs.                *)
C4_ExactlyOneRequest ==
    /\ pc \in {"waiting", "returned", "raised"} => nreq = 1
    /\ pc \in {"idle", "failed"} => nreq = 0

C4_Witness ==
    /\ pc = "raised"
    /\ response.kind = "exception"
    /\ nreq = 1

(* C5: the returned value contains an "error" key if and only if the call  *)
(* failed (non-success status or transport failure); a successful call     *)
(* returns the decoded remote payload unchanged.                           *)
C5_ErrorKeyIffFailed ==
    Finished =>
        /\ pc = "returned"
        /\ HasErrorKey(ret) <=> (TransportLevelFailure \/ RemoteRejection)
        /\ (~TransportLevelFailure /\ ~RemoteRejection /\ response.status # 204)
              => ret = json(response.text).value

----------------------------------------------------------------------------
(* The request a tool built, while it is on the wire.                      *)

Sending == pc = "waiting"

BodyKeys == IF http.json.t = "dict" THEN DOMAIN http.json.v ELSE {}
QueryKeys == IF http.params.t = "dict" THEN DOMAIN http.params.v ELSE {}
SentKeys == BodyKeys \cup QueryKeys
SentValue(k) == IF k \in BodyKeys THEN http.json.v[k] ELSE http.params.v[k]

\* the optional parameters the caller supplied
Supplied == DOMAIN kwargs \cap Optional(op)
OnlyRequired == DOMAIN kwargs = Required(op)

\* the URL of an endpoint path
UrlOf(path) == Fmt(GITEA_MCP_API_URL) \o "/api/v1/" \o path

\* optional parameters that are written into the request unconditionally
AlwaysSent(name) ==
    CASE name \in {"create_repository", "create_org_repository"} ->
            {"private", "auto_init", "default_branch"}
      [] name = "search_issues" -> {"state"}
      [] name = "list_labels"   -> {"page", "limit"}
      [] name = "create_label"  -> {"exclusive"}
      [] OTHER                  -> {}

(* C6, as stated: when the caller supplies only the required arguments,    *)
(* the request built contains no optional field or parameter.              *)
C6_Original ==
    (Sending /\ OnlyRequired) =>
        \A p \in Optional(op) : WireKey(p) \notin SentKeys

(* C6, amended: when the caller supplies only the required arguments, the  *)
(* request contains no optional field or parameter except the ones every   *)
(* request of the operation carries, which hold their declared defaults:   *)
(* private=false, auto_init=false, default_branch="main" (create_repository *)
(* and create_org_repository), state="open" (search_issues), page=1 and    *)
(* limit=20 (list_labels), exclusive=false (create_label).                 *)
C6_OnlyDefaultedFieldsWhenOnlyRequired ==
    (Sending /\ OnlyRequired) =>
        \A p \in Optional(op) :
            IF p \in AlwaysSent(op)
            THEN /\ WireKey(p) \in SentKeys
                 /\ SentValue(WireKey(p)) = Defaults(op)[p]
            ELSE WireKey(p) \notin SentKeys

C6_Witness ==
    /\ Sending
    /\ op = "list_labels"
    /\ OnlyRequired
    /\ http.params = PyDict([page |-> PyInt(1), limit |-> PyInt(20)])
    /\ http.json = None

(* C7: for every optional boolean or numeric argument, the request holds   *)
(* the corresponding key if and only if the caller supplied the argument,  *)
(* and then with the supplied value, falsy or not.                         *)
C7_KeyIffSupplied ==
    Sending =>
        \A p \in Optional(op) \cap (BoolParams \cup IntParams) :
            /\ WireKey(p) \in SentKeys <=> p \in Supplied
            /\ (p \in Supplied /\ WireKey(p) \in SentKeys)
                  => SentValue(WireKey(p)) = kwargs[p]

(* C8: for create_issue and update_issue, a supplied label list, empty or  *)
(* not, is sent in the body with its elements in the caller's order, and   *)
(* an absent one produces no key.                                          *)
C8_LabelListIffSupplied ==
    (Sending /\ op \in {"create_issue", "update_issue"}) =>
        /\ "labels" \in BodyKeys <=> "labels" \in Supplied
        /\ ("labels" \in Supplied /\ "labels" \in BodyKeys)
              => http.json.v["labels"] = kwargs["labels"]

(* C9: update_issue sends PATCH to repos/{owner}/{repo}/issues/{index}     *)
(* with a body holding exactly the optional fields the caller supplied     *)
(* (milestone_id under the key "milestone"), each with the supplied value. *)
C9_UpdateIssueSendsExactlySupplied ==
    (Sending /\ op = "update_issue") =>
        /\ http.method = "PATCH"
        /\ http.url = UrlOf("repos/" \o kwargs["owner"].v \o "/" \o kwargs["repo"].v
                            \o "/issues/" \o ToString(kwargs["index"].v))
        /\ http.params = None
        /\ http.json.t = "dict"
        /\ DOMAIN http.json.v = {WireKey(p) : p \in Supplied}
        /\ \A p \in Supplied : http.json.v[WireKey(p)] = kwargs[p]

C9_Witness ==
    /\ Sending
    /\ op = "update_issue"
    /\ Supplied = {"state"}
    /\ kwargs["index"] = PyInt(7)
    /\ http.method = "PATCH"
    /\ http.url = "http://gitea.local/api/v1/repos/alice/site/issues/7"
    /\ http.json = PyDict([state |-> PyStr("closed")])

(* C10: create_repository with a name and nothing else sends POST to       *)
(* user/repos with the body {name, private: false, auto_init: false,       *)
(* default_branch: "main"}; create_org_repository with the same arguments  *)
(* sends the same body to orgs/{org}/repos.                                *)
C10_CreateRepositoryNameOnly ==
    (Sending /\ OnlyRequired) =>
        /\ op \in {"create_repository", "create_org_repository"} =>
              /\ http.method = "POST"
              /\ http.params = None
              /\ http.json = PyDict([name |-> kwargs["name"],
                                     private |-> PyBool(FALSE),
                                     auto_init |-> PyBool(FALSE),
                                     default_branch |-> PyStr("main")])
        /\ op = "create_repository" => http.url = UrlOf("user/repos")
        /\ op = "create_org_repository" =>
              http.url = UrlOf("orgs/" \o kwargs["org"].v \o "/repos")

C10_Witness ==
    /\ Sending
    /\ op = "create_org_repository"
    /\ kwargs = [org |-> PyStr("acme"), name |-> PyStr("demo")]
    /\ http.url = "http://gitea.local/api/v1/orgs/acme/repos"
    /\ http.json = PyDict([name |-> PyStr("demo"), private |-> PyBool(FALSE),
                           auto_init |-> PyBool(FALSE),
                           default_branch |-> PyStr("main")])

----------------------------------------------------------------------------
(* Calls with a bad required argument.                                     *)

\* the arguments in kwargs are those of the call in progress
InCall == pc \in {"waiting", "rejected"}

MissingRequired == Required(op) \ DOMAIN kwargs # {}

MalformedRequired ==
    \E p \in Required(op) \cap DOMAIN kwargs : kwargs[p] \in MalformedVals(p)

(* C11: when a required argument of an operation is missing or malformed,  *)
(* the call is rejected and no HTTP request is issued.                     *)
C11_BadRequiredArgumentRejected ==
    (InCall /\ (MissingRequired \/ MalformedRequired)) =>
        /\ pc = "rejected"
        /\ ret.t = "exception"
        /\ nreq = 0
        /\ http = None

----------------------------------------------------------------------------
(* Configuration at startup and afterwards.                                *)

\* the base URL or the access credential is unset or empty
ConfigUnset == ~Truthy(GITEA_MCP_API_URL) \/ ~Truthy(GITEA_ACCESS_TOKEN)

\* no tool has run and no request was sent
NothingExecuted ==
    /\ op = ""
    /\ nreq = 0
    /\ http = None
    /\ response = None

\* a tool is running or has just finished
OperationRuns == pc \in {"waiting", "returned", "raised", "rejected"}

(* C12: if the base URL or the credential is unset or empty after the      *)
(* environment and the fallback file were read, startup fails and no       *)
(* operation ever executes and no HTTP request is ever sent; whenever an   *)
(* operation runs both values are set; and both keep their startup values  *)
(* in every step.                                                          *)
C12_ConfigRequiredAndFixed ==
    /\ [](ConfigUnset => (pc = "failed" /\ NothingExecuted))
    /\ [](OperationRuns => ~ConfigUnset)
    /\ [][pc = "failed" => pc' = "failed"]_vars
    /\ [][/\ GITEA_MCP_API_URL' = GITEA_MCP_API_URL
          /\ GITEA_ACCESS_TOKEN' = GITEA_ACCESS_TOKEN]_vars

C12_Witness ==
    /\ pc = "failed"
    /\ GITEA_MCP_API_URL = PyStr("http://gitea.local")
    /\ GITEA_ACCESS_TOKEN = PyStr("")
    /\ NothingExecuted

============================================================================
